---- MODULE Spec2Model ----
(***************************************************************************)
(* The link lifecycle of shorty (backend/src/link.rs): the `links` table,  *)
(* Link::new_with_config, Link::is_expired, Link::from_id,                 *)
(* Link::from_id_no_invocation and the LinkStore facade (get, create_link, *)
(* create_link_with_config, clean).                                        *)
(*                                                                         *)
(* Three specifications share the same storage operators:                  *)
(*   Spec        every LinkStore call runs to completion before the next   *)
(*               one starts (a sequential run); the clock ticks between    *)
(*               calls.                                                    *)
(*   CustomSpec  sequential runs on one custom identifier.                 *)
(*   ConcSpec    two request handlers run concurrently against the pool;   *)
(*               each SQL statement is one atomic step and the handlers    *)
(*               interleave between statements.                            *)
(***************************************************************************)
EXTENDS Integers, Sequences, FiniteSets, TLC

VARIABLES
    links,      \* the rows of table `links` (a set of Link records)
    now,        \* the wall clock, in milliseconds
    pc,         \* ConcSpec: where each handler stands
    local,      \* ConcSpec: the handler's local Link (SELECT result / `shortened`)
    last,       \* the call that returned in the last step, and what it returned
    uses        \* per id: get calls and hits since the row was created

vars == <<links, now, pc, local, last, uses>>

(***************************************************************************)
(* Bounds of the model.                                                    *)
(***************************************************************************)
MaxTime == 2            \* the clock runs 0 .. MaxTime
MaxInvocations == 2     \* get is not called on a row that was invoked this often

(***************************************************************************)
(* Inputs.                                                                 *)
(***************************************************************************)
None == <<>>
Some(x) == <<x>>

\* The process-wide configuration the core reads.
CONFIG ==
    [max_link_length |-> 8,
     max_custom_id_length |-> 3,
     default_max_uses |-> 0,
     default_valid_for |-> 1]

CustomIds == {"a c", "abcdefgh"}
RandomIds == {"abc", "a_c"}
Ids == {"abc", "a_c"}
Targets == {"", "a.b", "toolong.d"}
MaxUsesValues == {-1, 0, 1}
ValidForValues == {-1, 0, 1}
Procs == {1, 2}

\* struct LinkConfig
LinkConfig ==
    [link : Targets,
     custom_id : {None} \cup {Some(c) : c \in CustomIds},
     max_uses : MaxUsesValues,
     valid_for : ValidForValues]

\* struct Link (also one row of the table)
MkLink(id, redirect_to, max_uses, invocations, created_at, valid_for) ==
    [id |-> id,
     redirect_to |-> redirect_to,
     max_uses |-> max_uses,
     invocations |-> invocations,
     created_at |-> created_at,
     valid_for |-> valid_for]

(***************************************************************************)
(* Helpers of the crate that link.rs calls.                                *)
(***************************************************************************)
StartsWith(s, p) == Len(s) >= Len(p) /\ SubSeq(s, 1, Len(p)) = p

\* ensure_http_prefix: the target always carries an explicit scheme.
ensure_http_prefix(s) ==
    IF StartsWith(s, "http://") \/ StartsWith(s, "https://")
    THEN s
    ELSE "http://" \o s

\* replace_illegal_url_chars: a custom id is made URL-safe.
replace_illegal_url_chars(id) ==
    IF id = "a c" THEN "a_c" ELSE id

\* time_now: the clock, in milliseconds.
time_now == now

(***************************************************************************)
(* Link::is_expired, at clock value t.                                     *)
(***************************************************************************)
\* Variant: the usage test written with > instead of >=.
is_expired_uses_gt(link, t) ==
    \/ link.valid_for < 0
    \/ (link.valid_for > 0 /\ (t - link.created_at) > link.valid_for)
    \/ link.max_uses < 0
    \/ (link.max_uses > 0 /\ link.invocations > link.max_uses)

\* Variant: the time test written with >= instead of >.
is_expired_time_ge(link, t) ==
    \/ link.valid_for < 0
    \/ (link.valid_for > 0 /\ (t - link.created_at) >= link.valid_for)
    \/ link.max_uses < 0
    \/ (link.max_uses > 0 /\ link.invocations >= link.max_uses)

is_expired(link, t) ==
    LET time_expired ==
            link.valid_for < 0
            \/ (link.valid_for > 0 /\ (t - link.created_at) > link.valid_for)
        uses_invalid ==
            link.max_uses < 0
            \/ (link.max_uses > 0 /\ link.invocations >= link.max_uses)
    IN  time_expired \/ uses_invalid

(***************************************************************************)
(* The SQL statements.                                                     *)
(***************************************************************************)
\* SELECT * FROM links WHERE id = $1  (fetch_optional)
SelectById(db, id) ==
    LET rows == {r \in db : r.id = id}
    IN  IF rows = {} THEN None ELSE Some(CHOOSE r \in rows : TRUE)

\* Variant: the UPDATE without its WHERE clause.
UpdateInvocationsAll(db, id) ==
    {[r EXCEPT !.invocations = r.invocations + 1] : r \in db}

\* Variant: the UPDATE is skipped when the row is expired.
UpdateInvocationsIfActive(db, id) ==
    {IF r.id = id /\ ~is_expired(r, now)
        THEN [r EXCEPT !.invocations = r.invocations + 1]
        ELSE r : r \in db}

\* UPDATE links SET invocations = invocations + 1 WHERE id = $2
UpdateInvocations(db, id) ==
    {IF r.id = id THEN [r EXCEPT !.invocations = r.invocations + 1] ELSE r : r \in db}

\* Variant: INSERT OR IGNORE, which keeps the row that is there.
InsertOrIgnore(db, link) ==
    IF \E r \in db : r.id = link.id THEN db ELSE db \cup {link}

\* Variant: a plain INSERT into a table without the primary key.
InsertPlain(db, link) == db \cup {link}

\* INSERT OR REPLACE INTO links VALUES (...)   (id is the primary key)
InsertOrReplace(db, link) ==
    {r \in db : r.id # link.id} \cup {link}

\* WHERE max_uses != 0 AND invocations > max_uses OR created_at + valid_for < $1
CleanPredicate(r, t) ==
    (r.max_uses # 0 /\ r.invocations > r.max_uses)
    \/ (r.created_at + r.valid_for < t)

\* Variant: the DELETE stops after one row (DELETE ... LIMIT 1).
DeleteStaleOne(db, t) ==
    LET stale == {r \in db : CleanPredicate(r, t)}
    IN  IF stale = {} THEN db ELSE db \ {CHOOSE r \in stale : TRUE}

\* DELETE FROM links WHERE ...
DeleteStale(db, t) ==
    {r \in db : ~CleanPredicate(r, t)}

\* get_random_id: a candidate that no active link holds (an expired holder
\* does not block it).  With every candidate taken the call does not return.
get_random_id(db) ==
    {c \in RandomIds : \A r \in db : r.id = c => is_expired(r, now)}

(***************************************************************************)
(* Link::new_with_config, lines 90-133: everything before the INSERT.      *)
(* The result is Err(kind) or Ok(shortened) for the resolved id.           *)
(***************************************************************************)
Err(kind) == [ok |-> FALSE, err |-> kind]
Ok(link) == [ok |-> TRUE, link |-> link]

\* The identifiers a config can resolve to (none when the custom id is too long).
ResolveId(cfg, db) ==
    IF cfg.custom_id # None
    THEN IF Len(cfg.custom_id[1]) > CONFIG.max_custom_id_length
         THEN {}
         ELSE {replace_illegal_url_chars(cfg.custom_id[1])}
    ELSE get_random_id(db)

\* Variant: lines 99-133 without the conflict check of lines 116-120.
CheckNewNoConflict(cfg, id, db) ==
    LET shortened ==
            MkLink(id, ensure_http_prefix(cfg.link), cfg.max_uses, 0, time_now, cfg.valid_for)
    IN  IF cfg.link = "" THEN Err("LinkEmpty")
        ELSE IF Len(cfg.link) > CONFIG.max_link_length THEN Err("LinkExceedsMaxLength")
        ELSE IF is_expired(shortened, now) THEN Err("ExpiredLinkProvided")
        ELSE Ok(shortened)

\* Variant: the is_expired test of the new link precedes the conflict check.
CheckNewExpiredFirst(cfg, id, db) ==
    LET existing == SelectById(db, id)
        shortened ==
            MkLink(id, ensure_http_prefix(cfg.link), cfg.max_uses, 0, time_now, cfg.valid_for)
    IN  IF cfg.link = "" THEN Err("LinkEmpty")
        ELSE IF Len(cfg.link) > CONFIG.max_link_length THEN Err("LinkExceedsMaxLength")
        ELSE IF is_expired(shortened, now) THEN Err("ExpiredLinkProvided")
        ELSE IF existing # None /\ ~is_expired(existing[1], now) THEN Err("LinkConflict")
        ELSE Ok(shortened)

\* Variant: lines 99-133 without the is_expired test of lines 131-133.
CheckNewNoExpiredCheck(cfg, id, db) ==
    LET existing == SelectById(db, id)
        shortened ==
            MkLink(id, ensure_http_prefix(cfg.link), cfg.max_uses, 0, time_now, cfg.valid_for)
    IN  IF cfg.link = "" THEN Err("LinkEmpty")
        ELSE IF Len(cfg.link) > CONFIG.max_link_length THEN Err("LinkExceedsMaxLength")
        ELSE IF existing # None /\ ~is_expired(existing[1], now) THEN Err("LinkConflict")
        ELSE Ok(shortened)

\* Lines 99-133 for a resolved id.
CheckNew(cfg, id, db) ==
    LET existing == SelectById(db, id)
        shortened ==
            MkLink(id, ensure_http_prefix(cfg.link), cfg.max_uses, 0, time_now, cfg.valid_for)
    IN  IF cfg.link = "" THEN Err("LinkEmpty")
        ELSE IF Len(cfg.link) > CONFIG.max_link_length THEN Err("LinkExceedsMaxLength")
        ELSE IF existing # None /\ ~is_expired(existing[1], now) THEN Err("LinkConflict")
        ELSE IF is_expired(shortened, now) THEN Err("ExpiredLinkProvided")
        ELSE Ok(shortened)

(***************************************************************************)
(* Bookkeeping that is not program state.                                  *)
(***************************************************************************)
NoCall == [op |-> "none"]
Untracked == [tracked |-> FALSE, gets |-> 0, hits |-> 0]
Fresh == [tracked |-> TRUE, gets |-> 0, hits |-> 0]

\* A new row is tracked when it is use-limited and has no time limit.
Track(link) ==
    IF link.max_uses > 0 /\ link.valid_for = 0 THEN Fresh ELSE Untracked

CountGet(u, hit) ==
    IF u.tracked
    THEN [u EXCEPT !.gets = u.gets + 1, !.hits = u.hits + (IF hit THEN 1 ELSE 0)]
    ELSE u

Idle == [p \in Procs |-> "idle"]
NoLocal == [p \in Procs |-> None]

Init ==
    /\ links = {}
    /\ now = 0
    /\ pc = Idle
    /\ local = NoLocal
    /\ last = NoCall
    /\ uses = [i \in Ids |-> Untracked]

(***************************************************************************)
(* The clock.                                                              *)
(***************************************************************************)
Tick ==
    /\ now < MaxTime
    /\ now' = now + 1
    /\ last' = NoCall
    /\ UNCHANGED <<links, pc, local, uses>>

(***************************************************************************)
(* LinkStore::get as one call: Link::from_id (SELECT, then UPDATE), then   *)
(* the is_expired test on the row that was read.                           *)
(***************************************************************************)
\* Variant: get returns the row it read without testing is_expired.
GetResultUnchecked(link) == link

GetResult(link) ==
    IF link # None /\ ~is_expired(link[1], now) THEN link ELSE None

CanGet(id) == \A r \in links : r.id = id => r.invocations < MaxInvocations

\* Variant: the row is read after the UPDATE (UPDATE ... RETURNING *).
GetPostIncrement(id) ==
    /\ CanGet(id)
    /\ LET link == SelectById(UpdateInvocations(links, id), id)
       IN  /\ links' = UpdateInvocations(links, id)
           /\ last' = [op |-> "get", id |-> id, out |-> GetResult(link)]
           /\ uses' = [uses EXCEPT ![id] = CountGet(@, GetResult(link) # None)]
    /\ UNCHANGED <<now, pc, local>>

\* Variant: a get that finds its row expired deletes it.
GetDeletesExpired(id) ==
    /\ CanGet(id)
    /\ LET link == SelectById(links, id)
       IN  /\ links' = IF link # None /\ GetResult(link) = None
                        THEN links \ {link[1]}
                        ELSE UpdateInvocations(links, id)
           /\ last' = [op |-> "get", id |-> id, out |-> GetResult(link)]
           /\ uses' = [uses EXCEPT ![id] = CountGet(@, GetResult(link) # None)]
    /\ UNCHANGED <<now, pc, local>>

Get(id) ==
    /\ CanGet(id)
    /\ LET link == SelectById(links, id)
       IN  /\ links' = UpdateInvocations(links, id)
           /\ last' = [op |-> "get", id |-> id, out |-> GetResult(link)]
           /\ uses' = [uses EXCEPT ![id] = CountGet(@, GetResult(link) # None)]
    /\ UNCHANGED <<now, pc, local>>

(***************************************************************************)
(* LinkStore::create_link_with_config as one call.                         *)
(***************************************************************************)
CreateTooLong(cfg) ==
    /\ cfg.custom_id # None
    /\ Len(cfg.custom_id[1]) > CONFIG.max_custom_id_length
    /\ last' = [op |-> "create", id |-> "", out |-> Err("CustomIDExceedsMaxLength"),
                 stale |-> FALSE, empty |-> cfg.link = ""]
    /\ UNCHANGED <<links, now, pc, local, uses>>

\* Variant: the INSERT runs before the is_expired test of the new link.
CreateResolvedInsertFirst(cfg, id) ==
    /\ id \in ResolveId(cfg, links)
    /\ LET res == CheckNew(cfg, id, links)
           shortened ==
               MkLink(id, ensure_http_prefix(cfg.link), cfg.max_uses, 0, time_now,
                      cfg.valid_for)
       IN  /\ last' = [op |-> "create", id |-> id, out |-> res,
                        stale |-> SelectById(links, id) # None]
           /\ IF res.ok \/ res.err = "ExpiredLinkProvided"
              THEN /\ links' = InsertOrReplace(links, shortened)
                   /\ uses' = [uses EXCEPT ![id] = Track(shortened)]
              ELSE UNCHANGED <<links, uses>>
    /\ UNCHANGED <<now, pc, local>>

CreateResolved(cfg, id) ==
    /\ id \in ResolveId(cfg, links)
    /\ LET res == CheckNew(cfg, id, links)
       IN  /\ last' = [op |-> "create", id |-> id, out |-> res,
                        stale |-> SelectById(links, id) # None]
           /\ IF res.ok
              THEN /\ links' = InsertOrReplace(links, res.link)
                   /\ uses' = [uses EXCEPT ![id] = Track(res.link)]
              ELSE UNCHANGED <<links, uses>>
    /\ UNCHANGED <<now, pc, local>>

CreateWithConfig(cfg) ==
    \/ CreateTooLong(cfg)
    \/ \E id \in Ids : CreateResolved(cfg, id)

\* LinkStore::create_link: the default config.
DefaultConfig(link) ==
    [link |-> link,
     custom_id |-> None,
     max_uses |-> CONFIG.default_max_uses,
     valid_for |-> CONFIG.default_valid_for]

CreateLink(link) == CreateWithConfig(DefaultConfig(link))

(***************************************************************************)
(* LinkStore::clean.                                                       *)
(***************************************************************************)
Clean ==
    /\ LET num_before == Cardinality(links)
           after == DeleteStale(links, time_now)
           num_after == Cardinality(after)
       IN  /\ links' = after
           /\ last' = [op |-> "clean", id |-> "", out |-> num_before - num_after,
                        prev |-> IF last.op = "clean" THEN Some(last.out) ELSE None]
    /\ uses' = [i \in Ids |-> Untracked]
    /\ UNCHANGED <<now, pc, local>>

Next ==
    \/ Tick
    \/ \E id \in Ids : Get(id)
    \/ \E cfg \in LinkConfig : CreateWithConfig(cfg)
    \/ \E link \in Targets : CreateLink(link)
    \/ Clean

Spec == Init /\ [][Next]_vars

(***************************************************************************)
(* Concurrent handlers.  Every sqlx query is awaited, so another handler   *)
(* can run between two statements; the two statements of Link::from_id run *)
(* in autocommit mode, one after the other, with no transaction around     *)
(* them.  The concurrent runs are explored on one identifier.              *)
(***************************************************************************)
ConcIds == {"a_c"}
ConcConfigs ==
    {cfg \in LinkConfig :
        /\ cfg.custom_id = Some("a c")
        /\ cfg.link = "a.b"
        /\ cfg.max_uses >= 0
        /\ cfg.valid_for >= 0}

\* Link::from_id, first statement: SELECT * FROM links WHERE id = $1
GetSelect(p, id) ==
    /\ pc[p] = "idle"
    /\ CanGet(id)
    /\ pc' = [pc EXCEPT ![p] = "update"]
    /\ local' = [local EXCEPT ![p] = Some([id |-> id, link |-> SelectById(links, id)])]
    /\ UNCHANGED <<links, now, last, uses>>

\* Link::from_id, second statement: UPDATE ...; then LinkStore::get returns.
GetUpdate(p) ==
    /\ pc[p] = "update"
    /\ LET id == local[p][1].id
           link == local[p][1].link
       IN  /\ links' = UpdateInvocations(links, id)
           /\ last' = [op |-> "get", id |-> id, out |-> GetResult(link)]
           /\ uses' = [uses EXCEPT ![id] = CountGet(@, GetResult(link) # None)]
    /\ pc' = [pc EXCEPT ![p] = "idle"]
    /\ local' = [local EXCEPT ![p] = None]
    /\ UNCHANGED now

\* Link::new_with_config up to the conflict check and the is_expired test.
CreateCheck(p, cfg, id) ==
    /\ pc[p] = "idle"
    /\ id \in ResolveId(cfg, links)
    /\ LET res == CheckNew(cfg, id, links)
       IN  IF res.ok
           THEN /\ pc' = [pc EXCEPT ![p] = "insert"]
                /\ local' = [local EXCEPT ![p] = Some([id |-> id, link |-> Some(res.link)])]
                /\ UNCHANGED last
           ELSE /\ last' = [op |-> "create", id |-> id, out |-> res,
                             stale |-> SelectById(links, id) # None]
                /\ UNCHANGED <<pc, local>>
    /\ UNCHANGED <<links, now, uses>>

\* Link::new_with_config: INSERT OR REPLACE, then Ok(shortened).
CreateInsert(p) ==
    /\ pc[p] = "insert"
    /\ LET id == local[p][1].id
           shortened == local[p][1].link[1]
       IN  /\ links' = InsertOrReplace(links, shortened)
           /\ last' = [op |-> "create", id |-> id, out |-> Ok(shortened),
                        stale |-> SelectById(links, id) # None]
           /\ uses' = [uses EXCEPT ![id] = Track(shortened)]
    /\ pc' = [pc EXCEPT ![p] = "idle"]
    /\ local' = [local EXCEPT ![p] = None]
    /\ UNCHANGED now

ConcNext ==
    \/ Tick
    \/ Clean
    \/ \E p \in Procs, id \in ConcIds : GetSelect(p, id)
    \/ \E p \in Procs : GetUpdate(p)
    \/ \E p \in Procs, cfg \in ConcConfigs, id \in ConcIds : CreateCheck(p, cfg, id)
    \/ \E p \in Procs : CreateInsert(p)

ConcSpec == Init /\ [][ConcNext]_vars

(***************************************************************************)
(* Sequential runs on one custom identifier, with two valid targets: the   *)
(* runs the creation properties are checked on.                            *)
(***************************************************************************)
CustomConfigs ==
    [link : Targets \cup {"http://c"},
     custom_id : {Some(c) : c \in CustomIds},
     max_uses : MaxUsesValues,
     valid_for : ValidForValues]

CustomNext ==
    \/ Tick
    \/ \E id \in ConcIds : Get(id)
    \/ \E cfg \in CustomConfigs : CreateWithConfig(cfg)
    \/ Clean

CustomSpec == Init /\ [][CustomNext]_vars

(***************************************************************************)
(* Link::is_expired as a function of (now, created_at, valid_for,          *)
(* max_uses, invocations): a Link value with any field values, stored or   *)
(* not, is held by process 1 and is_expired is called on it at the current *)
(* clock value; the clock may advance between calls.                       *)
(***************************************************************************)
LinkValues ==
    {MkLink("abc", "http://a.b", mu, inv, ca, vf) :
        mu \in -1..MaxInvocations, inv \in 0..(MaxInvocations + 1),
        ca \in 0..MaxTime, vf \in -1..MaxTime}

IsExpiredInit ==
    /\ links = {}
    /\ now \in 0..MaxTime
    /\ pc = Idle
    /\ \E link \in LinkValues : local = [p \in Procs |-> IF p = 1 THEN Some(link) ELSE None]
    /\ last = NoCall
    /\ uses = [i \in Ids |-> Untracked]

IsExpiredCall ==
    /\ last.op = "none"
    /\ last' = [op |-> "is_expired", out |-> is_expired(local[1][1], time_now)]
    /\ UNCHANGED <<links, now, pc, local, uses>>

IsExpiredNext ==
    \/ Tick
    \/ IsExpiredCall

IsExpiredSpec == IsExpiredInit /\ [][IsExpiredNext]_vars

(***************************************************************************)
(* The properties.                                                         *)
(*                                                                         *)
(* ExpirationPolicy is the expiration rule as the specification states it  *)
(* (section 4.2); the properties are stated against it, not against the    *)
(* model of Link::is_expired.                                              *)
(***************************************************************************)
ExpirationPolicy(link, t) ==
    \/ link.valid_for < 0
    \/ (link.valid_for > 0 /\ t - link.created_at > link.valid_for)
    \/ link.max_uses < 0
    \/ (link.max_uses > 0 /\ link.invocations >= link.max_uses)

Min(a, b) == IF a <= b THEN a ELSE b

RowsAt(db, id) == {r \in db : r.id = id}

\* The same link, whatever its counter says.
SameLink(r1, r2) == [r1 EXCEPT !.invocations = 0] = [r2 EXCEPT !.invocations = 0]

\* C1: under every interleaving of concurrent get calls on a link with
\* max_uses = N > 0 and no time limit, at most N of them return the link.
C1_AtMostNConcurrentGetsSucceed ==
    \A r \in links :
        (uses[r.id].tracked /\ r.max_uses > 0 /\ r.valid_for = 0)
            => uses[r.id].hits <= r.max_uses

\* C2: of two concurrent creations of the same identifier at most one succeeds:
\* the INSERT OR REPLACE of a creator that passed the conflict check never
\* replaces a row that is still active.
C2_ConcurrentCreateNeverReplacesActive ==
    [][\A p \in Procs :
          CreateInsert(p)
              => \A r \in RowsAt(links, local[p][1].id) : ExpirationPolicy(r, now)]_vars

\* C3: for a link created with max_uses = N > 0 and valid_for = 0, with no
\* clean or re-create in between, exactly the first N get calls on its id
\* return the link and every later get returns absent.
C3_ExactlyFirstNGetsReturn ==
    \A id \in Ids :
        uses[id].tracked =>
            /\ RowsAt(links, id) # {}
            /\ \A r \in RowsAt(links, id) :
                /\ r.max_uses > 0 /\ r.valid_for = 0
                /\ uses[id].hits = Min(uses[id].gets, r.max_uses)
                /\ (last.op = "get" /\ last.id = id)
                       => (last.out # None <=> uses[id].gets <= r.max_uses)

\* The second get on a link with max_uses = 1 has returned absent after the
\* first one returned the link.
C3_Witness ==
    \E r \in links :
        /\ uses[r.id].tracked
        /\ r.max_uses = 1
        /\ uses[r.id].gets = 2
        /\ uses[r.id].hits = 1
        /\ last.op = "get" /\ last.id = r.id /\ last.out = None

\* C4: whenever get(id) returns Some(link), that link is the row stored for id
\* (counted once more) and the expiration policy is false for it at the
\* moment of the call.
C4_GetNeverReturnsExpired ==
    (last.op = "get" /\ last.out # None) =>
        /\ ~ExpirationPolicy(last.out[1], now)
        /\ last.out[1].id = last.id
        /\ [last.out[1] EXCEPT !.invocations = @ + 1] \in links

\* get has returned a use-limited, time-limited link while an expired row of
\* another identifier is still stored.
C4_Witness ==
    /\ last.op = "get"
    /\ last.out # None
    /\ last.out[1].max_uses > 0
    /\ last.out[1].valid_for > 0
    /\ \E r \in links : r.id # last.id /\ ExpirationPolicy(r, now)

\* C5: a stored link is removed only once it is expired: no step removes a
\* row whose expiration policy is false, and get(id) returns such a row.
C5_RemovedOnlyOnceExpired ==
    [][/\ \A r \in links :
            ~ExpirationPolicy(r, now) => \E r2 \in links' : SameLink(r, r2)
       /\ \A id \in Ids :
            (/\ last'.op = "get"
             /\ \E r \in RowsAt(links, id) : ~ExpirationPolicy(r, now)
             /\ Get(id))
                => last'.out # None]_vars

\* C6: clean deletes no row whose expiration policy is false at the call's
\* timestamp; such a row is still present afterwards, all six fields unchanged.
C6_CleanKeepsUnexpired ==
    [][(last'.op = "clean" /\ Clean)
          => \A r \in links : ~ExpirationPolicy(r, now) => r \in links']_vars

\* C7: clean deletes every row for which the expiration policy is true at the
\* call's timestamp: right after clean the store holds no expired row, and
\* every row that was expired is among the rows it removed (with K expired
\* rows, clean removes K rows and not fewer).
C7_CleanRemovesEveryExpired ==
    [][(last'.op = "clean" /\ Clean)
          => /\ \A r \in links' : ~ExpirationPolicy(r, now)
             /\ last'.out >= Cardinality({r \in links : ExpirationPolicy(r, now)})]_vars

\* C8: a second clean made immediately after a first one (same timestamp, no
\* call in between) removes zero rows and leaves the store as the first call
\* left it.
C8_CleanIdempotent ==
    [][(last.op = "clean" /\ last'.op = "clean" /\ Clean)
          => (links' = links /\ last'.out = 0)]_vars

\* A second clean has run right after a clean that removed rows, and a row is
\* still stored.
C8_Witness ==
    /\ last.op = "clean"
    /\ last.prev # None
    /\ last.prev[1] > 0
    /\ last.out = 0
    /\ links # {}

ValidTarget(cfg) == cfg.link # "" /\ Len(cfg.link) <= CONFIG.max_link_length

ActiveAt(id) == \E r \in RowsAt(links, id) : ~ExpirationPolicy(r, now)

StaleAt(id) ==
    /\ RowsAt(links, id) # {}
    /\ \A r \in RowsAt(links, id) : ExpirationPolicy(r, now)

\* C9 as stated: a create whose resolved identifier is held by a row that is
\* not expired returns LinkConflict and leaves the store unchanged.
C9_ConflictOnActiveId ==
    [][\A cfg \in CustomConfigs, id \in Ids :
          (ActiveAt(id) /\ CreateResolved(cfg, id))
              => (last'.out = Err("LinkConflict") /\ links' = links)]_vars

\* C9 amended: a create with a non-empty target of at most max_link_length
\* characters, whose resolved identifier is held by a row that is not expired,
\* returns LinkConflict; and every create on such an identifier leaves the
\* store unchanged.
C9_ConflictOnActiveIdValidTarget ==
    [][\A cfg \in CustomConfigs, id \in Ids :
          (ActiveAt(id) /\ CreateResolved(cfg, id))
              => /\ links' = links
                 /\ ValidTarget(cfg) => last'.out = Err("LinkConflict")]_vars

\* A create has returned LinkConflict and the active row is still stored.
C9_Witness ==
    /\ last.op = "create"
    /\ last.out = Err("LinkConflict")
    /\ ActiveAt(last.id)

\* C10: a create with a valid target and non-negative limits whose identifier
\* is held only by an expired row succeeds; afterwards the store holds exactly
\* one row for that id, with the new redirect_to, max_uses and valid_for,
\* invocations = 0 and the new created_at.
C10_StaleRowIsReplaced ==
    [][\A cfg \in CustomConfigs, id \in Ids :
          (/\ StaleAt(id)
           /\ ValidTarget(cfg)
           /\ cfg.max_uses >= 0
           /\ cfg.valid_for >= 0
           /\ CreateResolved(cfg, id))
              => /\ last'.out.ok
                 /\ RowsAt(links', id) =
                        {MkLink(id, ensure_http_prefix(cfg.link), cfg.max_uses, 0,
                                now, cfg.valid_for)}
                 /\ last'.out.link \in links']_vars

\* A create has replaced a stale row: it succeeded on an identifier that held
\* a row, at a later time than the start, and the new row counts from 0.
C10_Witness ==
    /\ last.op = "create"
    /\ last.out.ok
    /\ last.stale
    /\ now > 0
    /\ \E r \in RowsAt(links, last.id) : r.invocations = 0 /\ r.created_at = now

\* C11: every failing create (CustomIDExceedsMaxLength, LinkEmpty,
\* LinkExceedsMaxLength, LinkConflict, ExpiredLinkProvided) leaves the store
\* exactly as it was before the call.
C11_FailingCreateLeavesStore ==
    [][(last'.op = "create" /\ ~last'.out.ok) => links' = links]_vars

\* A create has failed with ExpiredLinkProvided on an identifier that holds a
\* stale row, while the other identifier holds a row too.
C11_Witness ==
    /\ last.op = "create"
    /\ last.out = Err("ExpiredLinkProvided")
    /\ last.stale
    /\ Cardinality(links) = 2

\* C12: in every reachable state every stored redirect_to is non-empty and
\* has at most max_link_length characters.
C12_StoredTargetWithinMaxLength ==
    \A r \in links :
        r.redirect_to # "" /\ Len(r.redirect_to) <= CONFIG.max_link_length

NegativeLimits(cfg) == cfg.max_uses < 0 \/ cfg.valid_for < 0

ReplacedBy(id) == last'.op = "create" /\ last'.out.ok /\ last'.id = id

\* C14 as stated: the counter of a surviving row never decreases and changes
\* only in a get of its identifier that returns the link.
C14_CounterChangedOnlyByReturningGet ==
    [][\A r \in links : \A r2 \in RowsAt(links', r.id) :
          ~ReplacedBy(r.id) =>
              /\ r2.invocations >= r.invocations
              /\ r2.invocations # r.invocations
                    => (last'.op = "get" /\ last'.id = r.id /\ last'.out # None)]_vars

\* C14 amended: the counter of a surviving row never decreases; every get of
\* an identifier that holds a row adds exactly one to it, whether the get
\* returns the link or None; no other step changes it.
C14_CounterChangedByEveryGet ==
    [][\A r \in links : \A r2 \in RowsAt(links', r.id) :
          ~ReplacedBy(r.id) =>
              /\ r2.invocations >= r.invocations
              /\ r2.invocations # r.invocations
                    => (last'.op = "get" /\ last'.id = r.id
                        /\ r2.invocations = r.invocations + 1)
              /\ (last'.op = "get" /\ last'.id = r.id)
                    => r2.invocations = r.invocations + 1]_vars

\* A get has returned None for a use-limited row and the stored counter has
\* passed max_uses.
C14_Witness ==
    /\ last.op = "get"
    /\ last.out = None
    /\ \E r \in RowsAt(links, last.id) :
          r.max_uses > 0 /\ r.invocations > r.max_uses

\* C15: for every (now, created_at, valid_for, max_uses, invocations) in the
\* bounded ranges, Link::is_expired returns exactly
\* (valid_for < 0 or (valid_for > 0 and now - created_at > valid_for)) or
\* (max_uses < 0 or (max_uses > 0 and invocations >= max_uses)); a negative
\* valid_for or max_uses gives true, and valid_for = 0 with max_uses = 0 gives
\* false.
C15_IsExpiredMatchesPolicy ==
    last.op = "is_expired" =>
        LET link == local[1][1]
        IN  /\ last.out = ExpirationPolicy(link, now)
            /\ (link.valid_for < 0 \/ link.max_uses < 0) => last.out = TRUE
            /\ (link.valid_for = 0 /\ link.max_uses = 0) => last.out = FALSE

\* is_expired has returned false for a link whose age equals valid_for, the
\* last clock value at which it is still valid.
C15_Witness ==
    /\ last.op = "is_expired"
    /\ last.out = FALSE
    /\ local[1][1].valid_for > 0
    /\ now - local[1][1].created_at = local[1][1].valid_for

\* C16: once the stored row of an identifier is expired it stays expired in
\* every later state, whatever time passes and whatever gets add to its
\* counter, until clean deletes it or a successful create replaces it.
C16_ExpiryIsIrreversible ==
    [][\A r \in links :
          (ExpirationPolicy(r, now) /\ ~ReplacedBy(r.id)) =>
              /\ \A r2 \in RowsAt(links', r.id) : ExpirationPolicy(r2, now')
              /\ RowsAt(links', r.id) = {} => last'.op = "clean"]_vars

\* A get has returned None for a row that is expired by time and is still
\* stored.
C16_Witness ==
    /\ last.op = "get"
    /\ last.out = None
    /\ \E r \in RowsAt(links, last.id) :
          r.valid_for > 0 /\ now - r.created_at > r.valid_for

\* C17: in every reachable state, after any interleaving of create, get and
\* clean, the store holds at most one row per identifier.
C17_OneRowPerId ==
    \A r1 \in links : \A r2 \in links : r1.id = r2.id => r1 = r2

\* A create has written its row over a row that was already stored under the
\* same identifier, and the identifier holds one row.
C17_Witness ==
    /\ last.op = "create"
    /\ last.out.ok
    /\ last.stale
    /\ Cardinality(RowsAt(links, last.id)) = 1

\* C18 as stated: get applies the expiration policy to the row as it is
\* stored after this call's increment, and returns that row.
C18_GetEvaluatesPostIncrement ==
    [][\A id \in Ids :
          (last'.op = "get" /\ last'.id = id) =>
              \A r2 \in RowsAt(links', id) :
                  last'.out = IF ExpirationPolicy(r2, now') THEN None ELSE Some(r2)]_vars

\* C18 amended: get applies the expiration policy to the row as it was
\* stored before this call's increment and returns that row, whose
\* invocations is one less than the counter stored after the call; with no
\* row it returns None.
C18_GetEvaluatesPreIncrement ==
    [][\A id \in Ids :
          (last'.op = "get" /\ last'.id = id) =>
              /\ RowsAt(links, id) = {} => last'.out = None
              /\ \A r \in RowsAt(links, id) :
                    /\ last'.out = IF ExpirationPolicy(r, now) THEN None ELSE Some(r)
                    /\ RowsAt(links', id) =
                           {[r EXCEPT !.invocations = r.invocations + 1]}]_vars

\* A get has returned a link whose counter is one below max_uses while the
\* stored counter has reached max_uses.
C18_Witness ==
    /\ last.op = "get"
    /\ last.out # None
    /\ last.out[1].max_uses > 0
    /\ last.out[1].invocations + 1 = last.out[1].max_uses
    /\ \E r \in RowsAt(links, last.id) : r.invocations = r.max_uses

\* The first check, in the order custom-id length, empty target, target too
\* long, identifier conflict, expired link provided, that a create of cfg
\* with a custom id fails when id is its resolved identifier; "none" when it
\* passes all five.
FirstFailingCheck(cfg, id) ==
    IF Len(cfg.custom_id[1]) > CONFIG.max_custom_id_length THEN "CustomIDExceedsMaxLength"
    ELSE IF cfg.link = "" THEN "LinkEmpty"
    ELSE IF Len(cfg.link) > CONFIG.max_link_length THEN "LinkExceedsMaxLength"
    ELSE IF ActiveAt(id) THEN "LinkConflict"
    ELSE IF NegativeLimits(cfg) THEN "ExpiredLinkProvided"
    ELSE "none"

\* C19: a create reports the first failing check in the order custom-id
\* length, empty target, target too long, identifier conflict, expired link
\* provided, and succeeds when no check fails.
C19_FirstFailingCheckReported ==
    [][\A cfg \in CustomConfigs :
          CreateWithConfig(cfg) =>
              LET e == FirstFailingCheck(cfg, last'.id)
              IN  IF e = "none" THEN last'.out.ok ELSE last'.out = Err(e)]_vars

\* A create with an over-long custom id and an empty target has returned
\* CustomIDExceedsMaxLength.
C19_Witness ==
    /\ last.op = "create"
    /\ last.out = Err("CustomIDExceedsMaxLength")
    /\ last.empty

\* C20: get and clean never change id, redirect_to, max_uses, created_at or
\* valid_for of a stored row: a get changes only the invocations of the row
\* with the requested identifier and no other row, clean changes no field of
\* a row it keeps, and the other fields of the row of an identifier change
\* only when a successful create replaces it.
C20_OnlyCreateChangesFields ==
    [][/\ \A id \in Ids :
            (last'.op = "get" /\ last'.id = id) =>
                /\ \A r \in links : r.id # id => r \in links'
                /\ \A r2 \in links' :
                      \/ r2 \in links /\ r2.id # id
                      \/ /\ r2.id = id
                         /\ [r2 EXCEPT !.invocations = r2.invocations - 1] \in links
       /\ last'.op = "clean" => links' \subseteq links
       /\ \A r \in links : \A r2 \in RowsAt(links', r.id) :
            ~SameLink(r, r2) => ReplacedBy(r.id)]_vars

\* A get has incremented the counter of its row while the row of the other
\* identifier still has the counter 0.
C20_Witness ==
    /\ last.op = "get"
    /\ \E r \in RowsAt(links, last.id) : r.invocations > 0
    /\ \E r \in links : r.id # last.id /\ r.invocations = 0

====
